---- MODULE Spec2Model ----
(***************************************************************************)
(* Model of src/App.js of firefly-iii-ai-categorize: the webhook handler,  *)
(* the job registry (JobList), the sequential queue (concurrency 1, 30 s   *)
(* timeout, autostart), the queued classification closure and the          *)
(* socket.io relay of registry events.                                     *)
(*                                                                         *)
(* JobList.js and the queue are not part of src/App.js; their behaviour is *)
(* taken from the specification (sections 4.2 and 4.3) and from the way    *)
(* App.js configures and calls them.                                       *)
(***************************************************************************)
EXTENDS Integers, Sequences, FiniteSets, TLC

\* ---------------------------------------------------------------- bounds
\* Number of webhooks that are accepted (one job each).
MaxJobs == 2

\* ------------------------------------------------------ JavaScript values
\* JavaScript's undefined and null, as they occur in a JSON body.
Undefined == "<undefined>"
Null == "<null>"

\* !x for the values a string-valued JSON field can take here.
Falsy(x) == x \in {Undefined, Null, ""}

\* An optional object or array: <<>> when the key is absent, <<v>> otherwise.
None == <<>>
Some(v) == <<v>>
IsSome(o) == Len(o) = 1
Get(o) == o[1]

\* ------------------------------------------------------------- payloads
\* One element of content.transactions.
Transactions1 ==
  [type : {"withdrawal", "deposit"},
   category_id : {Null, Undefined, "7"},
   description : {Undefined, "", "coffee", "rent"},
   destination_name : {Undefined, "Cafe"}]

\* content.transactions: absent, empty, or one or two elements (the second
\* element is never read by the handler, it is only passed on).
SecondTx ==
  [type |-> "deposit", category_id |-> "7",
   description |-> "refund", destination_name |-> "Shop"]

TransactionLists ==
  {None, Some(<<>>)}
    \cup {Some(<<t>>) : t \in Transactions1}
    \cup {Some(<<t, SecondTx>>) : t \in {u \in Transactions1 :
                                          /\ u.type = "withdrawal"
                                          /\ u.category_id = Null
                                          /\ u.description = "rent"}}

Contents ==
  {None} \cup {Some([id |-> i, transactions |-> l]) :
                 i \in {Undefined, "1", "2"}, l \in TransactionLists}

\* req.body of every request the model sends.
Bodies ==
  [trigger : {"STORE_TRANSACTION", "UPDATE_TRANSACTION", Undefined},
   response : {"TRANSACTIONS", "ACCOUNTS", Undefined},
   content : Contents]

\* ---------------------------------------------- optional chaining on body
\* req.body?.content?.id
ContentId(body) ==
  IF IsSome(body.content) THEN Get(body.content).id ELSE Undefined

\* req.body?.content?.transactions is an array
HasTransactions(body) ==
  IsSome(body.content) /\ IsSome(Get(body.content).transactions)

\* req.body.content.transactions, when it is an array
TransactionsOf(body) == Get(Get(body.content).transactions)

\* ------------------------------------------------- WebhookException texts
MsgTrigger == "trigger is not STORE_TRANSACTION. Request will not be processed"
MsgResponse == "trigger is not TRANSACTION. Request will not be processed"
MsgContentId == "Missing content.id"
MsgNoTransactions == "No transactions are available in content.transactions"
MsgType == "content.transactions[0].type has to be 'withdrawal'. Transaction will be ignored."
MsgCategory == "content.transactions[0].category_id is already set. Transaction will be ignored."
MsgDescription == "Missing content.transactions[0].description"
MsgDestination == "Missing content.transactions[0].destination_name"
\* The TypeError of line 120 when content.transactions is undefined.
MsgTypeErrorIndex == "Cannot read properties of undefined (reading '0')"
NoException == "<no exception>"

\* The first exception #handleWebhook throws for this body before it
\* creates the job (lines 104-134), NoException when it throws none.
HandleWebhookThrows(body) ==
  IF body.trigger # "STORE_TRANSACTION" THEN MsgTrigger
  ELSE IF body.response # "TRANSACTIONS" THEN MsgResponse
  ELSE IF Falsy(ContentId(body)) THEN MsgContentId
  ELSE IF HasTransactions(body) /\ Len(TransactionsOf(body)) = 0
    THEN MsgNoTransactions
  \* transactions?.length is undefined here, not 0: line 120 indexes undefined
  ELSE IF ~HasTransactions(body) THEN MsgTypeErrorIndex
  ELSE LET tx == TransactionsOf(body)[1] IN
    IF tx.type # "withdrawal" THEN MsgType
    ELSE IF tx.category_id # Null THEN MsgCategory
    ELSE IF Falsy(tx.description) THEN MsgDescription
    ELSE IF Falsy(tx.destination_name) THEN MsgDestination
    ELSE NoException

\* ------------------------------------------------------------------ state
VARIABLES
  jobList,    \* #jobList: the registry, a list of jobs; a job's id is its index
  queue,      \* #queue: jobs (ids of the closures waiting) and pending
  item,       \* per pushed closure, what the queue knows of it
  closure,    \* per pushed closure: where it is suspended and its locals
  calls,      \* per pushed closure, the calls it made to the registry and
              \* to the external services, in order
  emitted,    \* the events the registry emitted in the last step, in order
  connected,  \* whether the observer's socket is connected
  sent,       \* what the last step sent to the observer's socket, in order
  req,        \* body of the webhook request the last step handled, if any
  res         \* the response the last step sent to the webhook's caller

vars ==
  <<jobList, queue, item, closure, calls, emitted, connected, sent, req, res>>

\* A queue configured with two workers.
ConcurrencyTwo == 1 + 1

\* Queue options of App.run (lines 35-39); autostart is modelled by Start
\* needing no separate call.
Concurrency == 1

\* ------------------------------------------------ external collaborators
\* What #firefly.getCategories() may resolve to: name -> id.
Taxonomies == {("Food" :> "10"), ("Rent" :> "21")}

\* What #openAi.classify may resolve to for the category names it is given.
ClassifyResults(names) ==
  [category : names \cup {""}, prompt : {"prompt"}, response : {"response"}]

\* ------------------------------------------------------------ Job registry
\* The registry together with the relay of its events, as a step begins: the
\* jobs, and nothing emitted or sent yet in this step.
Registry == [jobs |-> jobList, emitted |-> <<>>, sent |-> <<>>]

\* this.#io.emit(type, data) of lines 51-52: to every connected socket.
IoEmit(box, ev) == IF connected THEN Append(box, ev) ELSE box

\* Only the 'job created' listener registered.
OnJobEventCreatedOnly(box, ev) ==
  IF ev.type = "job created" THEN IoEmit(box, ev) ELSE box

\* The listeners App.run registers on the registry (lines 51-52).
OnJobEvent(box, ev) ==
  IF ev.type \in {"job created", "job updated"} THEN IoEmit(box, ev) ELSE box

\* The registry emits an event carrying the job's snapshot.
Emit(r, type, id) ==
  LET ev == [type |-> type, job |-> r.jobs[id]]
  IN [r EXCEPT !.emitted = Append(@, ev), !.sent = OnJobEvent(@, ev)]

createJob(r, data) ==
  LET id == Len(r.jobs) + 1
      job == [id |-> id, status |-> "Created", data |-> data]
  IN Emit([r EXCEPT !.jobs = Append(@, job)], "job created", id)

setJobInProgress(r, id) ==
  Emit([r EXCEPT !.jobs[id].status = "InProgress"], "job updated", id)

updateJobData(r, id, newData) ==
  Emit([r EXCEPT !.jobs[id].data = newData], "job updated", id)

setJobFinished(r, id) ==
  Emit([r EXCEPT !.jobs[id].status = "Finished"], "job updated", id)

\* A closure that does not mark its job InProgress.
ClosureBeginSilent(r, id) == r

\* The closure's first statements (lines 145-146).
ClosureBegin(r, id) == setJobInProgress(r, id)

\* A closure that returns without marking its job Finished.
ClosureEndSilent(r, id) == r

\* A closure that the queue's timeout stops: it does not mark its job
\* Finished once its item has timed out.
ClosureEndUnlessTimedOut(r, id) ==
  IF item[id] = "timeout" THEN r ELSE setJobFinished(r, id)

\* The closure's last statement (line 168).
ClosureEnd(r, id) == setJobFinished(r, id)

SetRegistry(r) ==
  /\ jobList' = r.jobs
  /\ emitted' = r.emitted
  /\ sent' = r.sent

\* A step that does not call the registry.
RegistryUntouched == SetRegistry(Registry)

\* A step that handles no webhook request.
NoBody == [trigger |-> Undefined, response |-> Undefined, content |-> None]
NoResponse == [status |-> 0, body |-> ""]
NoRequest == req' = NoBody /\ res' = NoResponse

\* ------------------------------------------------------------------- Init
Init ==
  /\ jobList = <<>>
  /\ queue = [jobs |-> <<>>, pending |-> 0]
  /\ item = <<>>
  /\ closure = <<>>
  /\ calls = <<>>
  /\ emitted = <<>>
  /\ connected = FALSE
  /\ sent = <<>>
  /\ req = NoBody
  /\ res = NoResponse

\* ---------------------------------------------------------------- webhook
\* The closure called on the spot instead of being handed to the queue.
NewClosureCalled(body) ==
  [pc |-> "getCategories", body |-> body, categories |-> <<>>,
   category |-> ""]

\* The closure pushed at line 144, not yet called.
NewClosure(body) ==
  [pc |-> "queued", body |-> body, categories |-> <<>>, category |-> ""]

\* unshift in place of push: the newest closure goes first.
QueueUnshift(q, id) == [q EXCEPT !.jobs = <<id>> \o @]

\* this.#queue.push(closure) (line 144): the closure waits in queue.jobs.
QueuePush(q, id) == [q EXCEPT !.jobs = Append(@, id)]

\* destinationName and description taken from each other's field.
JobDataSwapped(body) ==
  LET tx == TransactionsOf(body)[1]
  IN [destinationName |-> tx.description, description |-> tx.destination_name]

\* The data #handleWebhook creates the job with (lines 136-142).
JobData(body) ==
  LET tx == TransactionsOf(body)[1]
  IN [destinationName |-> tx.destination_name, description |-> tx.description]

\* #handleWebhook past validation (lines 136-169): create the job, push the
\* closure.
HandleWebhookAccept(body) ==
  LET id == Len(jobList) + 1
  IN /\ SetRegistry(createJob(Registry, JobData(body)))
     /\ closure' = Append(closure, NewClosure(body))
     /\ item' = Append(item, "waiting")
     /\ calls' = Append(calls, <<>>)
     /\ queue' = QueuePush(queue, id)

\* A handler that creates the job and pushes the closure before it checks
\* the first transaction.
OnWebhookJobBeforeChecks(body) ==
  /\ req' = body
  /\ LET e == HandleWebhookThrows(body) IN
       IF e = NoException \/ (HasTransactions(body)
                                /\ Len(TransactionsOf(body)) > 0)
         THEN /\ Len(jobList) < MaxJobs
              /\ HandleWebhookAccept(body)
              /\ res' = IF e = NoException
                          THEN [status |-> 200, body |-> "Queued"]
                          ELSE [status |-> 400, body |-> e]
         ELSE /\ res' = [status |-> 400, body |-> e]
              /\ RegistryUntouched
              /\ UNCHANGED <<queue, item, closure, calls>>
  /\ UNCHANGED connected

\* #onWebhook (lines 89-99): "Queued" when #handleWebhook returns, 400 with
\* the exception's message when it throws.
OnWebhook(body) ==
  /\ req' = body
  /\ LET e == HandleWebhookThrows(body) IN
       IF e = NoException
         THEN /\ Len(jobList) < MaxJobs
              /\ HandleWebhookAccept(body)
              /\ res' = [status |-> 200, body |-> "Queued"]
         ELSE /\ res' = [status |-> 400, body |-> e]
              /\ RegistryUntouched
              /\ UNCHANGED <<queue, item, closure, calls>>
  /\ UNCHANGED connected

\* The requests of the main specification: two accepted bodies (one content
\* id and list each), one refused by a TypeError and one by a rule; SpecBodies
\* below runs the handler on every body.
Tx(type, cat, desc, dest) ==
  [type |-> type, category_id |-> cat, description |-> desc,
   destination_name |-> dest]

Body(trigger, response, content) ==
  [trigger |-> trigger, response |-> response, content |-> content]

Content(id, list) == Some([id |-> id, transactions |-> list])

Requests ==
  { Body("STORE_TRANSACTION", "TRANSACTIONS",
         Content("1", Some(<<Tx("withdrawal", Null, "coffee", "Cafe")>>))),
    Body("STORE_TRANSACTION", "TRANSACTIONS",
         Content("2", Some(<<Tx("withdrawal", Null, "rent", "Cafe"), SecondTx>>))),
    Body("STORE_TRANSACTION", "TRANSACTIONS", Content("1", None)),
    Body("STORE_TRANSACTION", "TRANSACTIONS",
         Content("1", Some(<<Tx("deposit", Null, "coffee", "Cafe")>>))) }

Webhook == \E body \in Requests : OnWebhook(body)

\* ------------------------------------------------------------------ queue
\* The closure of job id is suspended at an await.
Awaiting(id) == closure[id].pc \in {"getCategories", "classify", "setCategory"}

\* The queue's worker is free and takes the first waiting closure.
CanStart(q) == q.pending < Concurrency /\ Len(q.jobs) > 0

\* The closure's promise settled: the queue frees the worker and raises
\* 'success' or 'error', unless it had given the item up at its timeout.
Settle(q, it, id, outcome) ==
  IF it[id] = "running"
    THEN [queue |-> [q EXCEPT !.pending = @ - 1],
          item |-> [it EXCEPT ![id] = outcome]]
    ELSE [queue |-> q, item |-> it]

SetQueue(s) == queue' = s.queue /\ item' = s.item

\* destinationName and description captured by the closure (lines 136-137).
DestinationName(id) == TransactionsOf(closure[id].body)[1].destination_name
Description(id) == TransactionsOf(closure[id].body)[1].description

\* The calls of the closure up to its first await (lines 146-148).
BeginCalls == <<[fn |-> "setJobInProgress"], [fn |-> "getCategories"]>>

\* The queue calls the closure: lines 145-148 up to the first await.
Start ==
  /\ CanStart(queue)
  /\ LET id == Head(queue.jobs) IN
       /\ queue' = [jobs |-> Tail(queue.jobs), pending |-> queue.pending + 1]
       /\ item' = [item EXCEPT ![id] = "running"]
       /\ SetRegistry(ClosureBegin(Registry, id))
       /\ calls' = [calls EXCEPT ![id] = @ \o BeginCalls]
       /\ closure' = [closure EXCEPT ![id].pc = "getCategories"]
  /\ NoRequest
  /\ UNCHANGED connected

\* getCategories() resolved: lines 148-155 up to the second await.
GetCategoriesReturns(id, categories) ==
  /\ closure[id].pc = "getCategories"
  /\ calls' = [calls EXCEPT ![id] = Append(@,
       [fn |-> "classify", names |-> DOMAIN categories,
        destinationName |-> DestinationName(id),
        description |-> Description(id)])]
  /\ closure' = [closure EXCEPT ![id].pc = "classify",
                                ![id].categories = categories]
  /\ RegistryUntouched
  /\ NoRequest
  /\ UNCHANGED <<queue, item, connected>>

\* Only the category recorded on the job.
NewDataCategoryOnly(data, r) == ("category" :> r.category) @@ data

\* A fresh object in place of the copy of job.data.
NewDataFresh(data, r) ==
  "category" :> r.category @@ "prompt" :> r.prompt @@ "response" :> r.response

\* Object.assign({}, job.data) with category, prompt, response (lines 157-160).
NewData(data, r) ==
  ("category" :> r.category @@ "prompt" :> r.prompt
     @@ "response" :> r.response) @@ data

\* categories.get(category)
CategoriesGet(categories, category) ==
  IF category \in DOMAIN categories THEN categories[category] ELSE Undefined

\* The commit made whatever the category.
ShouldCommitAlways(category) == TRUE

\* if (category) of line 164
ShouldCommit(category) == ~Falsy(category)

\* The commit of the first job's request and taxonomy, whatever the job.
CommitCallOfFirstJob(id, category) ==
  [fn |-> "setCategory",
   contentId |-> ContentId(closure[1].body),
   transactions |-> TransactionsOf(closure[1].body),
   categoryId |-> CategoriesGet(closure[1].categories, category)]

\* this.#firefly.setCategory(req.body.content.id,
\* req.body.content.transactions, categories.get(category)) of line 165.
CommitCall(id, category) ==
  [fn |-> "setCategory",
   contentId |-> ContentId(closure[id].body),
   transactions |-> TransactionsOf(closure[id].body),
   categoryId |-> CategoriesGet(closure[id].categories, category)]

\* The commit issued before the job's data is updated.
ClassifiedCallsCommitFirst(id, category) ==
  IF ShouldCommit(category)
    THEN <<CommitCall(id, category), [fn |-> "updateJobData"]>>
    ELSE <<[fn |-> "updateJobData"], [fn |-> "setJobFinished"]>>

\* The calls of the closure once classify() has resolved, up to its next
\* await or its end (lines 162-168).
ClassifiedCalls(id, category) ==
  <<[fn |-> "updateJobData"]>>
    \o IF ShouldCommit(category)
         THEN <<CommitCall(id, category)>>
         ELSE <<[fn |-> "setJobFinished"]>>

\* classify() resolved: lines 151-168 up to the third await, or to the end
\* when no category was chosen.
ClassifyReturns(id, r) ==
  /\ closure[id].pc = "classify"
  /\ calls' = [calls EXCEPT ![id] = @ \o ClassifiedCalls(id, r.category)]
  /\ LET updated == updateJobData(Registry, id, NewData(jobList[id].data, r))
     IN IF ShouldCommit(r.category)
          THEN /\ SetRegistry(updated)
               /\ closure' = [closure EXCEPT ![id].pc = "setCategory",
                                             ![id].category = r.category]
               /\ UNCHANGED <<queue, item>>
          ELSE /\ SetRegistry(ClosureEnd(updated, id))
               /\ closure' = [closure EXCEPT ![id].pc = "resolved",
                                             ![id].category = r.category]
               /\ SetQueue(Settle(queue, item, id, "success"))
  /\ NoRequest
  /\ UNCHANGED connected

\* setCategory() resolved: line 168.
SetCategoryReturns(id) ==
  /\ closure[id].pc = "setCategory"
  /\ SetRegistry(ClosureEnd(Registry, id))
  /\ calls' = [calls EXCEPT ![id] = Append(@, [fn |-> "setJobFinished"])]
  /\ closure' = [closure EXCEPT ![id].pc = "resolved"]
  /\ SetQueue(Settle(queue, item, id, "success"))
  /\ NoRequest
  /\ UNCHANGED connected

\* A closure that issues a failed call a second time and awaits it again.
CallRejectsRetries(id) ==
  /\ Awaiting(id)
  /\ LET last == calls[id][Len(calls[id])] IN
       /\ \A i \in 1 .. Len(calls[id]) - 1 : calls[id][i] # last
       /\ calls' = [calls EXCEPT ![id] = Append(@, last)]
  /\ RegistryUntouched
  /\ NoRequest
  /\ UNCHANGED <<queue, item, closure, connected>>

\* A closure that marks its job Finished on its way out of a failed call.
CallRejectsFinishes(id) ==
  /\ Awaiting(id)
  /\ closure' = [closure EXCEPT ![id].pc = "rejected"]
  /\ SetQueue(Settle(queue, item, id, "error"))
  /\ SetRegistry(ClosureEnd(Registry, id))
  /\ NoRequest
  /\ UNCHANGED <<calls, connected>>

\* A closure whose failure never reaches the queue: the worker stays taken.
CallRejectsHoldsWorker(id) ==
  /\ Awaiting(id)
  /\ closure' = [closure EXCEPT ![id].pc = "rejected"]
  /\ RegistryUntouched
  /\ NoRequest
  /\ UNCHANGED <<queue, item, calls, connected>>

\* The awaited call rejected: the exception leaves the closure.
CallRejects(id) ==
  /\ Awaiting(id)
  /\ closure' = [closure EXCEPT ![id].pc = "rejected"]
  /\ SetQueue(Settle(queue, item, id, "error"))
  /\ RegistryUntouched
  /\ NoRequest
  /\ UNCHANGED <<calls, connected>>

\* The item's 30 s timer fires while its closure is suspended: the queue
\* raises 'timeout' and frees the worker; the closure is not interrupted.
Timeout(id) ==
  /\ item[id] = "running"
  /\ Awaiting(id)
  /\ queue' = [queue EXCEPT !.pending = @ - 1]
  /\ item' = [item EXCEPT ![id] = "timeout"]
  /\ RegistryUntouched
  /\ NoRequest
  /\ UNCHANGED <<closure, calls, connected>>

\* --------------------------------------------------------------- observer
\* io.on('connection') (lines 66-69): the socket gets the 'jobs' snapshot.
Connect ==
  /\ ~connected
  /\ connected' = TRUE
  /\ sent' = <<[type |-> "jobs", jobs |-> jobList]>>
  /\ emitted' = <<>>
  /\ NoRequest
  /\ UNCHANGED <<jobList, queue, item, closure, calls>>

\* ------------------------------------------------------------------- Next
Ids == 1 .. Len(jobList)

Next ==
  \/ Webhook
  \/ Start
  \/ \E id \in Ids, c \in Taxonomies : GetCategoriesReturns(id, c)
  \/ \E id \in Ids :
       \E r \in ClassifyResults(DOMAIN closure[id].categories) :
         ClassifyReturns(id, r)
  \/ \E id \in Ids : SetCategoryReturns(id)
  \/ \E id \in Ids : CallRejects(id)
  \/ \E id \in Ids : Timeout(id)
  \/ Connect

Spec == Init /\ [][Next]_vars

\* ------------------------------------------- every call returns, in time
\* The system when no external call rejects and no item reaches its
\* timeout, scheduled fairly: the queue's worker takes a waiting closure
\* when it is free, and every awaited call returns.
NextLive ==
  \/ Webhook
  \/ Start
  \/ \E id \in Ids, c \in Taxonomies : GetCategoriesReturns(id, c)
  \/ \E id \in Ids :
       \E r \in ClassifyResults(DOMAIN closure[id].categories) :
         ClassifyReturns(id, r)
  \/ \E id \in Ids : SetCategoryReturns(id)
  \/ Connect

CallReturns ==
  \/ \E id \in Ids, c \in Taxonomies : GetCategoriesReturns(id, c)
  \/ \E id \in Ids :
       \E r \in ClassifyResults(DOMAIN closure[id].categories) :
         ClassifyReturns(id, r)
  \/ \E id \in Ids : SetCategoryReturns(id)

SpecLive ==
  Init /\ [][NextLive]_vars /\ WF_vars(Start) /\ WF_vars(CallReturns)

\* ------------------------------------------------- calls may fail or hang
\* The whole system scheduled fairly: the queue's worker takes a waiting
\* closure when it is free, and the 30 s timer of a running item fires
\* unless the item settles first. Nothing is assumed of the external calls.
SpecFair ==
  Init /\ [][Next]_vars /\ WF_vars(Start) /\ WF_vars(\E id \in Ids : Timeout(id))

\* ---------------------------------------------- the handler on every body
\* One request with any body of Bodies arrives at the fresh application and
\* #onWebhook answers it.
InitBodies ==
  /\ jobList = <<>>
  /\ queue = [jobs |-> <<>>, pending |-> 0]
  /\ item = <<>>
  /\ closure = <<>>
  /\ calls = <<>>
  /\ emitted = <<>>
  /\ connected = FALSE
  /\ sent = <<>>
  /\ req \in Bodies
  /\ res = NoResponse

Answer == res = NoResponse /\ OnWebhook(req)

SpecBodies == InitBodies /\ [][Answer]_vars

\* ----------------------------------------------------------------- claims
\* The closures that were called and have neither returned nor thrown.
Executing == {id \in Ids : Awaiting(id)}

\* C1 as stated: at every instant at most one job's closure is executing,
\* whatever the external services do, calls longer than the 30 s timeout
\* included.
C1_NoOverlapEver == Cardinality(Executing) <= 1

\* C1 amended: at every instant at most one closure that the queue has not
\* given up at its timeout is executing, the queue counts exactly that one
\* as pending, and two closures execute at once only when all but one of
\* them have timed out.
C1_NoOverlapUnlessTimedOut ==
  /\ Cardinality({id \in Executing : item[id] # "timeout"}) <= 1
  /\ queue.pending = Cardinality({id \in Ids : item[id] = "running"})
  /\ \A id \in Executing : item[id] \in {"running", "timeout"}

\* C1's case: a second closure is executing while a timed-out one still is.
C1_Witness ==
  \E a, b \in Executing : a # b /\ item[a] = "timeout" /\ item[b] = "running"

\* C2: closures start in the order their webhooks were accepted: a job
\* that has left Created was preceded by every job accepted before it.
C2_StartInArrivalOrder ==
  \A a, b \in Ids :
    a < b /\ jobList[b].status # "Created" => jobList[a].status # "Created"

\* C2's case: the second accepted job has started (so has the first).
C2_Witness ==
  /\ Len(jobList) >= 2
  /\ jobList[2].status = "InProgress"
  /\ jobList[1].status # "Created"

\* The registry's jobs after an observer of its events applies one event.
ApplyEvent(jobs, ev) ==
  IF ev.type = "jobs" THEN ev.jobs
  ELSE IF ev.job.id \in 1 .. Len(jobs)
    THEN [jobs EXCEPT ![ev.job.id] = ev.job]
    ELSE Append(jobs, ev.job)

RECURSIVE ApplyEvents(_, _)
ApplyEvents(jobs, evs) ==
  IF evs = <<>> THEN jobs
  ELSE ApplyEvents(ApplyEvent(jobs, Head(evs)), Tail(evs))

\* One registry change of a known job: either the status moves one place
\* forward and the data stays, or the status stays and the data changes.
ForwardChange(old, new) ==
  \/ /\ old.status = "Created" /\ new.status = "InProgress"
     /\ old.data = new.data
  \/ /\ old.status = "InProgress" /\ new.status = "Finished"
     /\ old.data = new.data
  \/ old.status = new.status /\ old.data # new.data

RECURSIVE ForwardChanges(_, _)
ForwardChanges(jobs, evs) ==
  IF evs = <<>> THEN TRUE
  ELSE LET ev == Head(evs) IN
    /\ IF ev.job.id \in 1 .. Len(jobs)
         THEN ForwardChange(jobs[ev.job.id], ev.job)
         ELSE ev.job.status = "Created"
    /\ ForwardChanges(ApplyEvent(jobs, ev), Tail(evs))

\* C3: every change the registry makes to a job moves its status one place
\* forward along Created, InProgress, Finished or leaves it alone: no step
\* back, no status set a second time, no Finished without InProgress.
C3_StatusMonotonic ==
  [][/\ ForwardChanges(jobList, emitted')
     /\ ApplyEvents(jobList, emitted') = jobList']_vars

\* C3's case: a job went all the way to Finished.
C3_Witness == \E id \in Ids : jobList[id].status = "Finished"

\* The seven rules in order, as the validation pipeline states them; a
\* category is unset when it is null or absent.
FirstViolatedRule(body) ==
  IF body.trigger # "STORE_TRANSACTION" THEN MsgTrigger
  ELSE IF body.response # "TRANSACTIONS" THEN MsgResponse
  ELSE IF Falsy(ContentId(body)) THEN MsgContentId
  ELSE IF ~HasTransactions(body) \/ Len(TransactionsOf(body)) = 0
    THEN MsgNoTransactions
  ELSE LET tx == TransactionsOf(body)[1] IN
    IF tx.type # "withdrawal" THEN MsgType
    ELSE IF tx.category_id \notin {Null, Undefined} THEN MsgCategory
    ELSE IF Falsy(tx.description) THEN MsgDescription
    ELSE IF Falsy(tx.destination_name) THEN MsgDestination
    ELSE NoException

\* C4: a webhook that fails validation is answered 400 and changes
\* nothing: no job, no closure on the queue, no event emitted or relayed,
\* registry and queue as before.
C4_RejectedWebhookChangesNothing ==
  [][\/ res'.status = 400
     \/ res' # NoResponse /\ FirstViolatedRule(req') # NoException
     =>
       /\ res'.status = 400
       /\ UNCHANGED <<jobList, queue, item, closure, calls>>
       /\ emitted' = <<>>
       /\ sent' = <<>>]_vars

\* C4's case: a request was refused while a job was being processed.
C4_Witness ==
  /\ res.status = 400
  /\ res.body = MsgType
  /\ Executing # {}

\* C5 as stated: a body that violates a rule, its transaction list being
\* absent included, is answered 400 with the message of the first rule it
\* violates.
C5_FirstViolatedRuleIsNamed ==
  res # NoResponse /\ FirstViolatedRule(req) # NoException =>
    res = [status |-> 400, body |-> FirstViolatedRule(req)]

\* C6: a webhook answered "Queued" adds exactly one job, with a fresh id,
\* status Created and exactly the destinationName and description of the
\* body's first transaction; no other step adds, removes or renumbers a job.
C6_OneJobPerAcceptedWebhook ==
  [][IF res'.status = 200
       THEN LET tx == TransactionsOf(req')[1]
                job == jobList'[Len(jobList')]
            IN /\ jobList' = Append(jobList, job)
               /\ job.status = "Created"
               /\ job.data = [destinationName |-> tx.destination_name,
                              description |-> tx.description]
               /\ \A id \in Ids : jobList[id].id # job.id
       ELSE /\ Len(jobList') = Len(jobList)
            /\ \A id \in Ids : jobList'[id].id = jobList[id].id]_vars

\* C6's case: the same body delivered twice made two jobs.
C6_Witness ==
  /\ Len(jobList) = 2
  /\ closure[1].body = closure[2].body
  /\ jobList[1].id # jobList[2].id
  /\ res.status = 200

\* The last call the closure of job id made.
LastCall(cs) == cs[Len(cs)].fn

\* C7: once a call of a job's closure has failed, the job is InProgress
\* and stays so, with the data it had: the creation data when the fetch or
\* the classification failed, that data plus category, prompt and response
\* when the commit failed; the closure makes no further call.
C7_FailedJobStaysAsItWas ==
  [][\A id \in 1 .. Len(jobList') :
       closure'[id].pc = "rejected" =>
         /\ jobList'[id].status = "InProgress"
         /\ IF LastCall(calls'[id]) = "setCategory"
              THEN /\ DOMAIN jobList'[id].data =
                        {"destinationName", "description", "category",
                         "prompt", "response"}
                   /\ jobList'[id].data.category = closure'[id].category
              ELSE jobList'[id].data = JobData(closure'[id].body)
         /\ closure[id].pc = "rejected" =>
              /\ jobList'[id] = jobList[id]
              /\ closure'[id] = closure[id]
              /\ calls'[id] = calls[id]]_vars

\* C7's case: the commit of a job failed after its data had been updated.
C7_Witness ==
  \E id \in Ids :
    /\ closure[id].pc = "rejected"
    /\ LastCall(calls[id]) = "setCategory"
    /\ jobList[id].data.category = "Food"

\* The job's closure has called setCategory.
Committed(id) == \E i \in 1 .. Len(calls[id]) : calls[id][i].fn = "setCategory"

\* The classification of job id has returned (its data carries the result).
Classified(id) == "category" \in DOMAIN jobList[id].data

\* C8: setCategory is called for a job only if its classification returned
\* a non-empty category; when it returned an empty one there is no commit
\* and the job is Finished with data.category empty.
C8_CommitOnlyWithCategory ==
  \A id \in Ids :
    /\ Committed(id) => Classified(id) /\ jobList[id].data.category # ""
    /\ Classified(id) /\ jobList[id].data.category = "" =>
         ~Committed(id) /\ jobList[id].status = "Finished"

\* C8's case: a job whose classification chose nothing is Finished.
C8_Witness ==
  \E id \in Ids :
    /\ Classified(id) /\ jobList[id].data.category = ""
    /\ jobList[id].status = "Finished"
    /\ closure[id].pc = "resolved"

\* C9: the socket of an observer gets, on connecting, the 'jobs' snapshot
\* of the registry as it is then, and from then on every event the registry
\* emits, in emission order, once each; applying them to what it has
\* gives the registry's jobs.
C9_ObserverFollowsRegistry ==
  [][/\ connected =>
          /\ sent' = emitted'
          /\ ApplyEvents(jobList, sent') = jobList'
     /\ ~connected /\ connected' =>
          /\ sent' = <<[type |-> "jobs", jobs |-> jobList]>>
          /\ ApplyEvents(<<>>, sent') = jobList']_vars

\* C9's case: a connected observer was sent the two events of one step
\* (data update, then Finished) of the second job.
C9_Witness ==
  /\ connected
  /\ Len(sent) = 2
  /\ sent[1].type = "job updated" /\ sent[1].job.status = "InProgress"
  /\ sent[2].type = "job updated" /\ sent[2].job.status = "Finished"
  /\ sent[2].job.id = 2

DataUpdated(id) ==
  \E i \in 1 .. Len(calls[id]) : calls[id][i].fn = "updateJobData"

\* C11: the queue's timeout of an item does not cancel its work: the step
\* that raises it leaves the closure, the calls it has made and the registry
\* alone; the closure stays suspended at the same call, whose return it can
\* still take; and on that return it goes on as any closure does: it
\* updates the job's data, commits a chosen category and sets the job
\* Finished.
C11_TimeoutDoesNotCancel ==
  [][\A id \in Ids :
       /\ item[id] = "running" /\ item'[id] = "timeout" =>
            /\ UNCHANGED <<closure, calls, jobList>>
            /\ Awaiting(id)
       /\ item[id] = "timeout" =>
            /\ item'[id] = "timeout"
            /\ closure[id].pc = "getCategories" =>
                 ENABLED GetCategoriesReturns(id, "Food" :> "10")
            /\ closure[id].pc = "setCategory" => ENABLED SetCategoryReturns(id)
            /\ closure[id].pc = "classify" /\ closure'[id].pc = "setCategory" =>
                 /\ jobList'[id].data.category = closure'[id].category
                 /\ LastCall(calls'[id]) = "setCategory"
            /\ closure[id].pc # "resolved" /\ closure'[id].pc = "resolved" =>
                 /\ jobList'[id].status = "Finished"
                 /\ "response" \in DOMAIN jobList'[id].data]_vars

\* C11's case: a job whose item had timed out was later updated, committed
\* upstream and set Finished by its closure.
C11_Witness ==
  \E id \in Ids :
    /\ item[id] = "timeout"
    /\ DataUpdated(id)
    /\ Committed(id)
    /\ jobList[id].status = "Finished"

\* C12 as stated: the handler answers "Queued" if and only if the body
\* satisfies all seven rules, the first transaction's category counting as
\* unset when it is null or absent; every other body is answered 400.
C12_AcceptIffRulesHold ==
  res # NoResponse =>
    /\ res.status \in {200, 400}
    /\ res.status = 200 <=> FirstViolatedRule(req) = NoException

\* The names of the calls the closure of job id made, in order.
Fns(cs) == [i \in 1 .. Len(cs) |-> cs[i].fn]

IsPrefix(s, t) == Len(s) <= Len(t) /\ s = SubSeq(t, 1, Len(s))

\* The two complete runs of a closure: with and without the commit.
OrderWithCommit ==
  <<"setJobInProgress", "getCategories", "classify", "updateJobData",
    "setCategory", "setJobFinished">>

OrderWithoutCommit ==
  <<"setJobInProgress", "getCategories", "classify", "updateJobData",
    "setJobFinished">>

\* C13: the steps of one job happen in a fixed order: 'job created' (the
\* job exists before its closure has called anything), set InProgress,
\* taxonomy fetch, classification, updateJobData with category, prompt and
\* response, the commit if a category was chosen, set Finished. The step
\* that issues the commit has emitted the data update's 'job updated'
\* event, and Finished is set only by a closure whose commit has returned
\* or was skipped.
C13_FixedStepOrder ==
  /\ [](\A id \in Ids :
          LET fns == Fns(calls[id])
              job == jobList[id]
          IN /\ IsPrefix(fns, OrderWithCommit) \/ IsPrefix(fns, OrderWithoutCommit)
             /\ job.status = "Created" <=> fns = <<>>
             /\ job.status = "Finished" <=>
                  fns # <<>> /\ fns[Len(fns)] = "setJobFinished"
             /\ "category" \in DOMAIN job.data <=>
                  \E i \in DOMAIN fns : fns[i] = "updateJobData"
             /\ job.status = "Finished" =>
                  /\ closure[id].pc = "resolved"
                  /\ ShouldCommit(job.data.category) <=> fns = OrderWithCommit
                  /\ ~ShouldCommit(job.data.category) <=>
                       fns = OrderWithoutCommit)
  /\ [][\A id \in 1 .. Len(jobList') :
          LET cs == calls'[id]
              job == jobList'[id]
          IN IF id \notin Ids
               THEN /\ cs = <<>>
                    /\ emitted' = <<[type |-> "job created", job |-> job]>>
               ELSE /\ cs # calls[id] /\ cs[Len(cs)].fn = "setCategory" =>
                         /\ emitted' = <<[type |-> "job updated", job |-> job]>>
                         /\ job.status = "InProgress"
                         /\ job.data.category = closure'[id].category
                    /\ jobList[id].status # "Finished"
                         /\ job.status = "Finished" =>
                           closure[id].pc = IF ShouldCommit(job.data.category)
                                              THEN "setCategory"
                                              ELSE "classify"]_vars

\* C13's case: a job went through every step, the commit included.
C13_Witness ==
  \E id \in Ids :
    /\ Fns(calls[id]) = OrderWithCommit
    /\ jobList[id].status = "Finished"

CreationKeys == {"destinationName", "description"}

ResultKeys == {"category", "prompt", "response"}

\* C14: every job's data.destinationName and data.description are, in
\* every state, the values the job was created with (those of its webhook's
\* first transaction); a job's data changes only in the step in which its
\* own closure takes the classification's result, which adds category,
\* prompt and response and keeps every key the data had; that step leaves
\* the data of every other job as it was.
C14_CreationDataKept ==
  [][\A id \in 1 .. Len(jobList') :
       LET new == jobList'[id].data IN
         /\ CreationKeys \subseteq DOMAIN new
         /\ new.destinationName = DestinationName(id)'
         /\ new.description = Description(id)'
         /\ id \in Ids =>
              /\ closure'[id].body = closure[id].body
              /\ \A k \in DOMAIN jobList[id].data :
                   k \in DOMAIN new /\ new[k] = jobList[id].data[k]
              /\ new # jobList[id].data =>
                   /\ closure[id].pc = "classify"
                   /\ closure'[id].pc # "classify"
                   /\ DOMAIN new = CreationKeys \cup ResultKeys
                   /\ \A other \in Ids \ {id} :
                        jobList'[other].data = jobList[other].data]_vars

\* C14's case: two jobs with different creation data have both had their
\* data updated.
C14_Witness ==
  /\ Len(jobList) = 2
  /\ Classified(1) /\ Classified(2)
  /\ jobList[1].data.description = "coffee"
  /\ jobList[2].data.description = "rent"
  /\ jobList[1].data.category # jobList[2].data.category

\* The call of the given name in a closure's calls.
CallOf(cs, fn) == cs[CHOOSE i \in 1 .. Len(cs) : cs[i].fn = fn]

\* The accepted request that creates a job with this creation data, and
\* the taxonomy with these category names.
RequestOf(data) ==
  CHOOSE b \in Requests :
    /\ HandleWebhookThrows(b) = NoException
    /\ JobData(b) = [k \in CreationKeys |-> data[k]]

TaxonomyOf(names) == CHOOSE t \in Taxonomies : DOMAIN t = names

C16_NoRetries ==
  [][\A id \in 1 .. Len(jobList') :
       LET cs == calls'[id]
           waits == queue'.jobs
       IN
         /\ Cardinality({cs[i].fn : i \in DOMAIN cs}) = Len(cs)
         /\ Cardinality({waits[i] : i \in DOMAIN waits}) = Len(waits)
         /\ item'[id] = "waiting" <=> \E i \in DOMAIN waits : waits[i] = id
         /\ item'[id] = "waiting" <=> closure'[id].pc = "queued"
         /\ id \in Ids =>
              /\ item[id] # "waiting" => item'[id] # "waiting"
              /\ item[id] \notin {"waiting", "running"} => item'[id] = item[id]
              /\ closure[id].pc # "queued" => closure'[id].pc # "queued"
              /\ closure[id].pc \in {"rejected", "resolved"} =>
                   closure'[id] = closure[id] /\ calls'[id] = calls[id]
              /\ Len(calls[id]) <= Len(calls'[id])
              /\ \A i \in DOMAIN calls[id] : calls'[id][i] = calls[id][i]]_vars

\* C16's case: one job failed at its commit, another timed out and then
\* finished, each having made every call once.
C16_Witness ==
  \E a, b \in Ids :
    /\ closure[a].pc = "rejected"
    /\ Fns(calls[a]) = SubSeq(OrderWithCommit, 1, 5)
    /\ item[b] = "timeout"
    /\ Fns(calls[b]) = OrderWithCommit

\* C17: when every external call returns successfully and no item reaches
\* its timeout, under fair scheduling the job of every accepted webhook is
\* eventually Finished; and whenever all jobs are Finished the queue holds
\* no waiting closure and its worker is idle.
C17_EveryJobFinishes ==
  /\ \A id \in 1 .. MaxJobs :
       (id \in Ids) ~> (id \in Ids /\ jobList[id].status = "Finished")
  /\ []((\A id \in Ids : jobList[id].status = "Finished") =>
          queue = [jobs |-> <<>>, pending |-> 0])

\* C17's case: two webhooks were accepted and both jobs are Finished.
C17_Witness ==
  /\ Len(jobList) = 2
  /\ \A id \in Ids : jobList[id].status = "Finished"
  /\ \A id \in Ids : item[id] = "success"
  /\ queue = [jobs |-> <<>>, pending |-> 0]

C19_StatusAndData ==
  [][\A id \in 1 .. Len(jobList') :
       LET job == jobList'[id] IN
         /\ job.status = "Created" => DOMAIN job.data \cap ResultKeys = {}
         /\ job.status = "Finished" =>
              /\ ResultKeys \subseteq DOMAIN job.data
              /\ job.data.prompt = "prompt" /\ job.data.response = "response"
              /\ Fns(calls'[id])[4] = "updateJobData"
         /\ DOMAIN job.data \cap ResultKeys \in {{}, ResultKeys}
         /\ id \in Ids =>
              /\ \A k \in DOMAIN jobList[id].data \cap ResultKeys :
                   k \in DOMAIN job.data /\ job.data[k] = jobList[id].data[k]
              /\ job.data # jobList[id].data =>
                   /\ DOMAIN jobList[id].data \cap ResultKeys = {}
                   /\ jobList[id].status = "InProgress"]_vars

\* C19's case: one job is Finished with an empty category and its prompt
\* and response recorded, while another is still Created.
C19_Witness ==
  \E a, b \in Ids :
    /\ jobList[a].status = "Finished"
    /\ jobList[a].data.category = ""
    /\ {"prompt", "response"} \subseteq DOMAIN jobList[a].data
    /\ jobList[b].status = "Created"
    /\ DOMAIN jobList[b].data = CreationKeys

====
